---- MODULE Spec2Model ----
(***************************************************************************)
(* Model of the go-linalg matrix package (src/matrix/matrix.go).           *)
(*                                                                         *)
(* A caller session constructs matrices, applies Add / Multiply / T / Map  *)
(* to the matrices it holds, and may write to a slice it passed to         *)
(* NewMatrix.  Slices are modelled with their storage: a [][]float64 is    *)
(* the address of an outer array of row addresses, a []float64 the address *)
(* of a row array, so that sharing of storage is part of the state.        *)
(* Address 0 is the nil slice.  Go indexes from 0, sequences here from 1.  *)
(*                                                                         *)
(* Every call is one step that records what it returned in `last`; the     *)
(* caller then keeps the returned matrix as an operand (Keep) or drops it  *)
(* (Discard).  A panic ends the session.  The session is bounded: the      *)
(* caller holds at most MaxMats matrices, constructs only while it has     *)
(* room for one more, keeps no zero or random matrix, and its write to a   *)
(* slice it passed to NewMatrix is its last step.                          *)
(***************************************************************************)
EXTENDS Integers, Sequences, FiniteSets, TLC

\* Largest dimension the caller asks for, and largest length of an input row.
MaxDim == 2
\* Number of matrices the caller keeps hold of during a session.
MaxMats == 2

VARIABLES
    heap,        \* [outer: row addresses of each outer array, inner: contents of each row array]
    mats,        \* the Matrix values the caller holds, in the order it obtained them
    callerData,  \* addresses of the [][]float64 values the caller passed to NewMatrix and still holds
    last,        \* the call (or caller write) just made, its arguments and what it returned
    env          \* what the session's inputs are drawn from (entry pattern, seed, f, min, max)

vars == <<heap, mats, callerData, last, env>>

----------------------------------------------------------------------------
(* float64.  Finite values are integers small enough that every sum and   *)
(* product taken here is exact in double precision; the non-finite values *)
(* follow IEEE-754.  Equality is equality of the stored datum.            *)

Fin(n) == [k |-> "fin", v |-> n]
PInf == [k |-> "inf", v |-> 1]
NInf == [k |-> "inf", v |-> -1]
NaN == [k |-> "nan", v |-> 0]

IsFinite(x) == x.k = "fin"

Sign(x) == IF x.v > 0 THEN 1 ELSE IF x.v < 0 THEN -1 ELSE 0

\* x + y on float64
FAdd(x, y) ==
    IF x.k = "nan" \/ y.k = "nan" THEN NaN
    ELSE IF x.k = "inf" /\ y.k = "inf" THEN (IF x.v = y.v THEN x ELSE NaN)
    ELSE IF x.k = "inf" THEN x
    ELSE IF y.k = "inf" THEN y
    ELSE Fin(x.v + y.v)

\* x * y on float64
FMul(x, y) ==
    IF x.k = "nan" \/ y.k = "nan" THEN NaN
    ELSE IF x.k = "inf" \/ y.k = "inf"
         THEN (IF Sign(x) * Sign(y) = 0 THEN NaN
               ELSE [k |-> "inf", v |-> Sign(x) * Sign(y)])
    ELSE Fin(x.v * y.v)

----------------------------------------------------------------------------
(* Slice storage *)

EmptyHeap == [outer |-> <<>>, inner |-> <<>>]

\* the row addresses of the [][]float64 at address d
OuterOf(H, d) == IF d = 0 THEN <<>> ELSE H.outer[d]

\* the contents of the []float64 at address r
InnerOf(H, r) == IF r = 0 THEN <<>> ELSE H.inner[r]

\* data[i]
RowOf(H, d, i) == InnerOf(H, OuterOf(H, d)[i])

\* whether data[i][j] is inside the bounds of both slices
InRange(H, d, i, j) ==
    /\ i \in 1..Len(OuterOf(H, d))
    /\ j \in 1..Len(RowOf(H, d, i))

\* the value of data[i][j]
Cell(H, d, i, j) == RowOf(H, d, i)[j]

\* data[i][j] = v
Store(H, d, i, j, v) == [H EXCEPT !.inner[OuterOf(H, d)[i]][j] = v]

\* the entries reachable from the [][]float64 at address d, row by row
GridOf(H, d) == [i \in 1..Len(OuterOf(H, d)) |-> RowOf(H, d, i)]

\* make([]float64, n)
ZeroRow(n) == [j \in 1..n |-> Fin(0)]

\* a [][]float64 literal built by the caller: one outer array, one array per row
AllocGrid(H, g) ==
    [outer |-> Append(H.outer, [i \in 1..Len(g) |-> Len(H.inner) + i]),
     inner |-> H.inner \o g]

\* make([][]float64, n): n nil rows
AllocOuter(H, n) == [H EXCEPT !.outer = Append(@, [i \in 1..n |-> 0])]

\* result[i] = make([]float64, n)
AllocRowAt(H, d, i, n) ==
    [outer |-> [H.outer EXCEPT ![d][i] = Len(H.inner) + 1],
     inner |-> Append(H.inner, ZeroRow(n))]

----------------------------------------------------------------------------
(* type Matrix struct { Rows int; Cols int; Data [][]float64 } *)

Matrix(rows, cols, d) == [Rows |-> rows, Cols |-> cols, Data |-> d]

\* Matrix{}
ZeroValue == Matrix(0, 0, 0)

(* What a call hands back: the storage after it, how it ended ("ok": nil  *)
(* error, "err": non-nil error, "panic": run-time panic), the Matrix      *)
(* returned and the number of operand entries it read.                    *)
Ret(H, kind, m, reads) == [H |-> H, kind |-> kind, m |-> m, reads |-> reads]

\* the state of a loop nest: storage, whether it panicked, entries read
Run(H) == [H |-> H, kind |-> "ok", reads |-> 0]
Panicked(st) == [st EXCEPT !.kind = "panic"]

\* NewMatrix as it would be with the length test ahead of the dimension test
NewMatrixLenFirst(H, rows, cols, d) ==
    IF Len(OuterOf(H, d)) # rows
    THEN Ret(H, "err", ZeroValue, 0)
    ELSE IF Len(OuterOf(H, d)) = 0
    THEN Ret(H, "panic", ZeroValue, 0)
    ELSE IF Len(RowOf(H, d, 1)) # cols
    THEN Ret(H, "err", ZeroValue, 0)
    ELSE IF rows <= 0 \/ cols <= 0
    THEN Ret(H, "err", ZeroValue, 0)
    ELSE Ret(H, "ok", Matrix(rows, cols, d), 0)

\* func NewMatrix(rows, cols int, data [][]float64) (Matrix, error)
NewMatrix(H, rows, cols, d) ==
    IF rows <= 0 \/ cols <= 0
    THEN Ret(H, "err", ZeroValue, 0)
    ELSE IF Len(OuterOf(H, d)) # rows
    THEN Ret(H, "err", ZeroValue, 0)
    ELSE IF Len(OuterOf(H, d)) = 0       \* data[0] on an empty slice
    THEN Ret(H, "panic", ZeroValue, 0)
    ELSE IF Len(RowOf(H, d, 1)) # cols
    THEN Ret(H, "err", ZeroValue, 0)
    ELSE Ret(H, "ok", Matrix(rows, cols, d), 0)

\* func NewZeroMatrix(rows, cols int) (Matrix, error)
NewZeroMatrix(H, rows, cols) ==
    IF rows < 0 \/ (rows > 0 /\ cols < 0)     \* make with a negative length
    THEN Ret(H, "panic", ZeroValue, 0)
    ELSE LET H1 == AllocGrid(H, [i \in 1..rows |-> ZeroRow(cols)])
             r == NewMatrix(H1, rows, cols, Len(H1.outer))
         IN IF r.kind # "ok"
            THEN Ret(H, "panic", ZeroValue, 0)   \* panic(err)
            ELSE Ret(H1, "ok", r.m, 0)

\* the diagonal store as it would be with the column index fixed at 0
SetDiagFirstCol(st, d, i) ==
    IF st.kind # "ok" THEN st
    ELSE IF ~InRange(st.H, d, i, 1) THEN Panicked(st)
    ELSE [st EXCEPT !.H = Store(st.H, d, i, 1, Fin(1))]

\* identity.Data[i][i] = 1.0
SetDiag(st, d, i) ==
    IF st.kind # "ok" THEN st
    ELSE IF ~InRange(st.H, d, i, i) THEN Panicked(st)
    ELSE [st EXCEPT !.H = Store(st.H, d, i, i, Fin(1))]

RECURSIVE IdentityLoop(_, _, _, _)
\* for i := 0; i < size; i++
IdentityLoop(st, d, i, size) ==
    IF i > size THEN st
    ELSE IdentityLoop(SetDiag(st, d, i), d, i + 1, size)

\* func NewIdentityMatrix(size int) (Matrix, error)
NewIdentityMatrix(H, size) ==
    IF size <= 0
    THEN Ret(H, "err", ZeroValue, 0)
    ELSE LET z == NewZeroMatrix(H, size, size)
         IN IF z.kind # "ok"
            THEN Ret(H, "panic", ZeroValue, 0)
            ELSE LET st == IdentityLoop(Run(z.H), z.m.Data, 1, size)
                 IN IF st.kind # "ok"
                    THEN Ret(H, "panic", ZeroValue, 0)
                    ELSE Ret(st.H, "ok", z.m, 0)

----------------------------------------------------------------------------
(* func (m Matrix) Add(other Matrix) (Matrix, error) *)

\* the test at the head of Add as it would be with only the row counts compared
AddMismatchRowsOnly(m, other) == m.Rows # other.Rows

\* if m.Rows != other.Rows || m.Cols != other.Cols
AddMismatch(m, other) == m.Rows # other.Rows \/ m.Cols # other.Cols

\* result[i][j] = m.Data[i][j] + other.Data[i][j]
AddCell(st, m, other, r, i, j) ==
    IF ~InRange(st.H, other.Data, i, j) \/ ~InRange(st.H, r, i, j)
    THEN Panicked(st)
    ELSE [st EXCEPT
            !.H = Store(st.H, r, i, j,
                        FAdd(Cell(st.H, m.Data, i, j), Cell(st.H, other.Data, i, j))),
            !.reads = @ + 2]

RECURSIVE AddCols(_, _, _, _, _, _)
\* for j := range m.Data[i]
AddCols(st, m, other, r, i, j) ==
    IF st.kind # "ok" \/ j > Len(RowOf(st.H, m.Data, i)) THEN st
    ELSE AddCols(AddCell(st, m, other, r, i, j), m, other, r, i, j + 1)

RECURSIVE AddRows(_, _, _, _, _)
\* for i := range m.Data { result[i] = make([]float64, m.Rows); ... }
AddRows(st, m, other, r, i) ==
    IF st.kind # "ok" \/ i > Len(OuterOf(st.H, m.Data)) THEN st
    ELSE IF i > Len(OuterOf(st.H, r)) THEN Panicked(st)
    ELSE AddRows(AddCols([st EXCEPT !.H = AllocRowAt(st.H, r, i, m.Rows)],
                         m, other, r, i, 1),
                 m, other, r, i + 1)

Add(H, m, other) ==
    IF AddMismatch(m, other)
    THEN Ret(H, "err", ZeroValue, 0)
    ELSE IF m.Rows < 0
    THEN Ret(H, "panic", ZeroValue, 0)
    ELSE LET H1 == AllocOuter(H, m.Rows)
             r == Len(H1.outer)
             st == AddRows(Run(H1), m, other, r, 1)
         IN IF st.kind # "ok"
            THEN Ret(H, "panic", ZeroValue, st.reads)
            ELSE Ret(st.H, "ok", Matrix(m.Rows, m.Cols, r), st.reads)

----------------------------------------------------------------------------
(* func (m Matrix) Multiply(other Matrix) (Matrix, error) *)

\* if m.Cols != other.Rows
MultiplyMismatch(m, other) == m.Cols # other.Rows

\* m.Data[i][k] * other.Data[k][j]
MulTerm(H, m, other, i, j, k) ==
    FMul(Cell(H, m.Data, i, k), Cell(H, other.Data, k, j))

\* the accumulation as it would be with = in place of +=
MulCellAssign(st, m, other, r, i, j, k) ==
    IF \/ ~InRange(st.H, r, i, j)
       \/ ~InRange(st.H, m.Data, i, k)
       \/ ~InRange(st.H, other.Data, k, j)
    THEN Panicked(st)
    ELSE [st EXCEPT
            !.H = Store(st.H, r, i, j,
                        FMul(Cell(st.H, m.Data, i, k), Cell(st.H, other.Data, k, j))),
            !.reads = @ + 2]

\* result.Data[i][j] += m.Data[i][k] * other.Data[k][j]
MulCell(st, m, other, r, i, j, k) ==
    IF \/ ~InRange(st.H, r, i, j)
       \/ ~InRange(st.H, m.Data, i, k)
       \/ ~InRange(st.H, other.Data, k, j)
    THEN Panicked(st)
    ELSE [st EXCEPT
            !.H = Store(st.H, r, i, j,
                        FAdd(Cell(st.H, r, i, j), MulTerm(st.H, m, other, i, j, k))),
            !.reads = @ + 2]

RECURSIVE MulK(_, _, _, _, _, _, _)
\* for k := range m.Data[0]
MulK(st, m, other, r, i, j, k) ==
    IF st.kind # "ok" \/ k > Len(RowOf(st.H, m.Data, 1)) THEN st
    ELSE MulK(MulCell(st, m, other, r, i, j, k), m, other, r, i, j, k + 1)

RECURSIVE MulJ(_, _, _, _, _, _)
\* for j := range other.Data[0]
MulJ(st, m, other, r, i, j) ==
    IF st.kind # "ok" THEN st
    ELSE IF Len(OuterOf(st.H, other.Data)) = 0 THEN Panicked(st)
    ELSE IF j > Len(RowOf(st.H, other.Data, 1)) THEN st
    ELSE MulJ(MulK(st, m, other, r, i, j, 1), m, other, r, i, j + 1)

RECURSIVE MulI(_, _, _, _, _)
\* for i := range m.Data
MulI(st, m, other, r, i) ==
    IF st.kind # "ok" \/ i > Len(OuterOf(st.H, m.Data)) THEN st
    ELSE MulI(MulJ(st, m, other, r, i, 1), m, other, r, i + 1)

Multiply(H, m, other) ==
    IF MultiplyMismatch(m, other)
    THEN Ret(H, "err", ZeroValue, 0)
    ELSE LET z == NewZeroMatrix(H, m.Rows, other.Cols)
         IN IF z.kind # "ok"
            THEN Ret(H, "panic", ZeroValue, 0)
            ELSE LET st == MulI(Run(z.H), m, other, z.m.Data, 1)
                 IN IF st.kind # "ok"
                    THEN Ret(H, "panic", ZeroValue, st.reads)
                    ELSE Ret(st.H, "ok", z.m, st.reads)

----------------------------------------------------------------------------
(* func (m Matrix) T() (Matrix) *)

\* the store of T as it would be with the indices of the target not exchanged
TCellSameIndex(st, m, r, j, i) ==
    IF ~InRange(st.H, r, j, i) \/ ~InRange(st.H, m.Data, j, i)
    THEN Panicked(st)
    ELSE [st EXCEPT !.H = Store(st.H, r, j, i, Cell(st.H, m.Data, j, i)),
                    !.reads = @ + 1]

\* transpose.Data[i][j] = m.Data[j][i]
TCell(st, m, r, j, i) ==
    IF ~InRange(st.H, r, i, j) \/ ~InRange(st.H, m.Data, j, i)
    THEN Panicked(st)
    ELSE [st EXCEPT !.H = Store(st.H, r, i, j, Cell(st.H, m.Data, j, i)),
                    !.reads = @ + 1]

RECURSIVE TCols(_, _, _, _, _)
\* for i := range m.Data[0]
TCols(st, m, r, j, i) ==
    IF st.kind # "ok" \/ i > Len(RowOf(st.H, m.Data, 1)) THEN st
    ELSE TCols(TCell(st, m, r, j, i), m, r, j, i + 1)

RECURSIVE TRows(_, _, _, _)
\* for j := range m.Data
TRows(st, m, r, j) ==
    IF st.kind # "ok" \/ j > Len(OuterOf(st.H, m.Data)) THEN st
    ELSE TRows(TCols(st, m, r, j, 1), m, r, j + 1)

T(H, m) ==
    LET z == NewZeroMatrix(H, m.Cols, m.Rows)
    IN IF z.kind # "ok"
       THEN Ret(H, "panic", ZeroValue, 0)
       ELSE LET st == TRows(Run(z.H), m, z.m.Data, 1)
            IN IF st.kind # "ok"
               THEN Ret(H, "panic", ZeroValue, st.reads)
               ELSE Ret(st.H, "ok", z.m, st.reads)

----------------------------------------------------------------------------
(* func (m Matrix) Map(f func(float64) float64) (Matrix, error) *)

\* the functions the caller passes to Map
Apply(f, x) == IF f = "inc" THEN FAdd(x, Fin(1)) ELSE FMul(x, Fin(-1))

\* the store of Map as it would be if it wrote its receiver in place
MapCellInPlace(st, m, r, f, i, j) ==
    IF ~InRange(st.H, r, i, j) \/ ~InRange(st.H, m.Data, i, j)
    THEN Panicked(st)
    ELSE [st EXCEPT
            !.H = Store(st.H, m.Data, i, j, Apply(f, Cell(st.H, m.Data, i, j))),
            !.reads = @ + 1]

\* result.Data[i][j] = f(m.Data[i][j])
MapCell(st, m, r, f, i, j) ==
    IF ~InRange(st.H, r, i, j) \/ ~InRange(st.H, m.Data, i, j)
    THEN Panicked(st)
    ELSE [st EXCEPT
            !.H = Store(st.H, r, i, j, Apply(f, Cell(st.H, m.Data, i, j))),
            !.reads = @ + 1]

RECURSIVE MapCols(_, _, _, _, _, _)
\* for j := range m.Data[0]
MapCols(st, m, r, f, i, j) ==
    IF st.kind # "ok" \/ j > Len(RowOf(st.H, m.Data, 1)) THEN st
    ELSE MapCols(MapCell(st, m, r, f, i, j), m, r, f, i, j + 1)

RECURSIVE MapRows(_, _, _, _, _)
\* for i := range m.Data
MapRows(st, m, r, f, i) ==
    IF st.kind # "ok" \/ i > Len(OuterOf(st.H, m.Data)) THEN st
    ELSE MapRows(MapCols(st, m, r, f, i, 1), m, r, f, i + 1)

Map(H, m, f) ==
    LET z == NewZeroMatrix(H, m.Rows, m.Cols)
    IN IF z.kind # "ok"
       THEN Ret(H, "panic", ZeroValue, 0)
       ELSE LET st == MapRows(Run(z.H), m, z.m.Data, f, 1)
            IN IF st.kind # "ok"
               THEN Ret(H, "panic", ZeroValue, st.reads)
               ELSE Ret(st.H, "ok", z.m, st.reads)

----------------------------------------------------------------------------
(* func NewRandomMatrix(rows, cols int, min, max float64) (Matrix, error) *)

\* rand.Float64() returns a multiple of 1/RandDen in [0, 1)
RandDen == 2

\* the k-th draw after rand.Seed(seed), as a numerator over RandDen
RandNum(seed, k) == (seed + k) % RandDen

\* min + rand.Float64()*(max-min), with max-min a multiple of RandDen
RandEntry(seed, k, min, max) == Fin(min + (RandNum(seed, k) * (max - min)) \div RandDen)

NewRandomMatrix(H, rows, cols, min, max, seed) ==
    IF rows <= 0 \/ cols <= 0
    THEN Ret(H, "err", ZeroValue, 0)
    ELSE LET g == [i \in 1..rows |->
                     [j \in 1..cols |-> RandEntry(seed, (i - 1) * cols + j - 1, min, max)]]
             H1 == AllocGrid(H, g)
         IN Ret(H1, "ok", Matrix(rows, cols, Len(H1.outer)), 0)

----------------------------------------------------------------------------
(* The caller's inputs *)

\* dimensions a caller may ask for: non-positive ones and 1..MaxDim
DimInputs == -1..MaxDim

(* Each session draws its entries, its seed, the function it maps and the *)
(* range of its random matrices from one of these.                        *)
Scenarios ==
    { [pat |-> "count", seed |-> 0, f |-> "inc", min |-> 0, max |-> 2],
      [pat |-> "inf", seed |-> 1, f |-> "neg", min |-> 2, max |-> 0] }

\* entry [i][j] of the n-th slice literal the caller writes
Entry(pat, n, i, j) ==
    IF pat = "count" THEN Fin(n + i + 2 * j - 2)
    ELSE IF i = 1 /\ j = 1 THEN PInf
    ELSE Fin(i - j + n)

\* lengths of the rows after the first, for a first row of length l0
LaterLens(l0) == {l0 - 1, l0} \cap (0..MaxDim)

\* a slice literal of nr rows: the first of length l0, the others of length l1
GridInput(pat, n, nr, l0, l1) ==
    [i \in 1..nr |-> [j \in 1..(IF i = 1 THEN l0 ELSE l1) |-> Entry(pat, n, i, j)]]

\* the slice literals a caller may pass to NewMatrix: empty, rectangular and ragged
DataInputs(pat, n) ==
    { GridInput(pat, n, s[1], s[2], s[3]) :
        s \in { t \in (0..MaxDim) \X (0..MaxDim) \X (0..MaxDim) : t[3] \in LaterLens(t[2]) } }

\* the value the caller writes into a slice it passed to NewMatrix
WriteValue == Fin(9)

----------------------------------------------------------------------------
(* The session *)

NoCall ==
    [op |-> "None", kind |-> "ok", res |-> ZeroValue, reads |-> 0,
     a |-> 0, b |-> 0, rows |-> 0, cols |-> 0, ldata |-> 0, ldata0 |-> 0,
     ga |-> <<>>, gb |-> <<>>, gr |-> <<>>, base |-> <<0, 0>>]

(* The record of a call that returned r from the storage H: operands a, b *)
(* (positions in mats, 0 for none), requested dimensions, the entries of  *)
(* the operands when it was made (ga, gb) and of the result (gr).  For    *)
(* NewMatrix, ldata is len(data), ldata0 is len(data[0]) (-1 when data is *)
(* empty) and ga holds the entries of data when the call succeeded.       *)
Call(op, H, r, a, b, rows, cols, ga, gb) ==
    [op |-> op, kind |-> r.kind, res |-> r.m, reads |-> r.reads,
     a |-> a, b |-> b, rows |-> rows, cols |-> cols, ldata |-> 0, ldata0 |-> 0,
     ga |-> ga, gb |-> gb,
     gr |-> IF r.kind = "ok" THEN GridOf(r.H, r.m.Data) ELSE <<>>,
     base |-> <<Len(H.outer), Len(H.inner)>>]

\* the storage after a call: a call that fails leaves only garbage behind
After(H, r) == IF r.kind = "ok" THEN r.H ELSE H

Idle == last.op = "None"

Init ==
    /\ heap = EmptyHeap
    /\ mats = <<>>
    /\ callerData = {}
    /\ last = NoCall
    /\ env \in Scenarios

NewMatrixCall ==
    /\ Idle
    /\ Len(mats) < MaxMats
    /\ \E rows \in DimInputs, cols \in DimInputs, g \in DataInputs(env.pat, Len(mats)) :
         LET H1 == AllocGrid(heap, g)
             r == NewMatrix(H1, rows, cols, Len(H1.outer))
         IN /\ heap' = After(heap, r)
            /\ last' = [Call("NewMatrix", heap, r, 0, 0, rows, cols,
                              IF r.kind = "ok" THEN g ELSE <<>>, <<>>)
                         EXCEPT !.ldata = Len(g),
                                !.ldata0 = IF Len(g) = 0 THEN -1 ELSE Len(g[1])]
    /\ UNCHANGED <<mats, callerData, env>>

NewZeroMatrixCall ==
    /\ Idle
    /\ Len(mats) < MaxMats
    /\ \E rows \in DimInputs, cols \in DimInputs :
         LET r == NewZeroMatrix(heap, rows, cols)
         IN /\ heap' = After(heap, r)
            /\ last' = Call("NewZeroMatrix", heap, r, 0, 0, rows, cols, <<>>, <<>>)
    /\ UNCHANGED <<mats, callerData, env>>

NewIdentityMatrixCall ==
    /\ Idle
    /\ Len(mats) < MaxMats
    /\ \E size \in DimInputs :
         LET r == NewIdentityMatrix(heap, size)
         IN /\ heap' = After(heap, r)
            /\ last' = Call("NewIdentityMatrix", heap, r, 0, 0, size, size, <<>>, <<>>)
    /\ UNCHANGED <<mats, callerData, env>>

NewRandomMatrixCall ==
    /\ Idle
    /\ Len(mats) < MaxMats
    /\ \E rows \in DimInputs, cols \in DimInputs :
         LET r == NewRandomMatrix(heap, rows, cols, env.min, env.max, env.seed)
         IN /\ heap' = After(heap, r)
            /\ last' = Call("NewRandomMatrix", heap, r, 0, 0, rows, cols, <<>>, <<>>)
    /\ UNCHANGED <<mats, callerData, env>>

AddCall ==
    /\ Idle
    /\ \E a \in 1..Len(mats), b \in 1..Len(mats) :
         LET r == Add(heap, mats[a], mats[b])
         IN /\ heap' = After(heap, r)
            /\ last' = Call("Add", heap, r, a, b, 0, 0,
                            GridOf(heap, mats[a].Data), GridOf(heap, mats[b].Data))
    /\ UNCHANGED <<mats, callerData, env>>

MultiplyCall ==
    /\ Idle
    /\ \E a \in 1..Len(mats), b \in 1..Len(mats) :
         LET r == Multiply(heap, mats[a], mats[b])
         IN /\ heap' = After(heap, r)
            /\ last' = Call("Multiply", heap, r, a, b, 0, 0,
                            GridOf(heap, mats[a].Data), GridOf(heap, mats[b].Data))
    /\ UNCHANGED <<mats, callerData, env>>

TCall ==
    /\ Idle
    /\ \E a \in 1..Len(mats) :
         LET r == T(heap, mats[a])
         IN /\ heap' = After(heap, r)
            /\ last' = Call("T", heap, r, a, 0, 0, 0, GridOf(heap, mats[a].Data), <<>>)
    /\ UNCHANGED <<mats, callerData, env>>

MapCall ==
    /\ Idle
    /\ \E a \in 1..Len(mats) :
         LET r == Map(heap, mats[a], env.f)
         IN /\ heap' = After(heap, r)
            /\ last' = Call("Map", heap, r, a, 0, 0, 0, GridOf(heap, mats[a].Data), <<>>)
    /\ UNCHANGED <<mats, callerData, env>>

(* The call returned a matrix and the caller keeps it as an operand for   *)
(* later calls.  Zero and random matrices are looked at and dropped.      *)
Keep ==
    /\ last.op \notin {"None", "Write", "NewZeroMatrix", "NewRandomMatrix"}
    /\ last.kind = "ok"
    /\ Len(mats) < MaxMats
    /\ mats' = Append(mats, last.res)
    /\ callerData' = IF last.op = "NewMatrix" THEN callerData \cup {last.res.Data}
                     ELSE callerData
    /\ last' = NoCall
    /\ UNCHANGED <<heap, env>>

\* the caller drops what the call returned (a panic ends the session instead)
Discard ==
    /\ last.op \notin {"None", "Write"}
    /\ last.kind # "panic"
    /\ heap' = [outer |-> SubSeq(heap.outer, 1, last.base[1]),
                inner |-> SubSeq(heap.inner, 1, last.base[2])]
    /\ last' = NoCall
    /\ UNCHANGED <<mats, callerData, env>>

\* data[0][0] = v on a slice the caller passed to NewMatrix; the session's last step
CallerWrite ==
    /\ Idle
    /\ \E d \in callerData :
         /\ InRange(heap, d, 1, 1)
         /\ heap' = Store(heap, d, 1, 1, WriteValue)
         /\ last' = [NoCall EXCEPT !.op = "Write", !.res = Matrix(0, 0, d)]
    /\ UNCHANGED <<mats, callerData, env>>

Next ==
    \/ NewMatrixCall
    \/ NewZeroMatrixCall
    \/ NewIdentityMatrixCall
    \/ NewRandomMatrixCall
    \/ AddCall
    \/ MultiplyCall
    \/ TCall
    \/ MapCall
    \/ Keep
    \/ Discard
    \/ CallerWrite

Spec == Init /\ [][Next]_vars

----------------------------------------------------------------------------
(* Properties *)

\* a grid of rows x cols entries, rows > 0 and cols > 0 (section 3 of the spec)
WellFormed(rows, cols, g) ==
    /\ rows > 0
    /\ cols > 0
    /\ Len(g) = rows
    /\ \A i \in 1..Len(g) : Len(g[i]) = cols

AllFinite(g) == \A i \in 1..Len(g) : \A j \in 1..Len(g[i]) : IsFinite(g[i][j])

\* the operands of the call in last
OpA == mats[last.a]
OpB == mats[last.b]

OpNames == {"Add", "Multiply", "T", "Map"}
CtorNames == {"NewMatrix", "NewZeroMatrix", "NewIdentityMatrix", "NewRandomMatrix"}

\* the entries of the matrix NewIdentityMatrix(n) returns
IdentityGrid(n) ==
    LET r == NewIdentityMatrix(EmptyHeap, n) IN GridOf(r.H, r.m.Data)

RECURSIVE DotSum(_, _, _, _, _)
\* ((0 + a[i][1]*b[1][j]) + a[i][2]*b[2][j]) + ... + a[i][k]*b[k][j]
DotSum(ga, gb, i, j, k) ==
    IF k = 0 THEN Fin(0)
    ELSE FAdd(DotSum(ga, gb, i, j, k - 1), FMul(ga[i][k], gb[k][j]))

(* C1: Add of two matrices of the same shape, square or not, returns no   *)
(* error and the matrix of that shape whose entries are the sums of the   *)
(* operands' entries.                                                      *)
AddSumsEntries ==
    ( /\ last.op = "Add"
      /\ WellFormed(OpA.Rows, OpA.Cols, last.ga)
      /\ WellFormed(OpB.Rows, OpB.Cols, last.gb)
      /\ OpA.Rows = OpB.Rows
      /\ OpA.Cols = OpB.Cols )
    => /\ last.kind = "ok"
       /\ last.res.Rows = OpA.Rows
       /\ last.res.Cols = OpA.Cols
       /\ WellFormed(OpA.Rows, OpA.Cols, last.gr)
       /\ \A i \in 1..OpA.Rows : \A j \in 1..OpA.Cols :
            last.gr[i][j] = FAdd(last.ga[i][j], last.gb[i][j])

(* C2: every Matrix returned without error, by any constructor or         *)
(* operation after any sequence of calls, has Rows > 0, Cols > 0,         *)
(* Rows = len(Data) and Cols = len(Data[i]) for every row i.              *)
ShapeInvariant ==
    /\ \A n \in 1..Len(mats) :
         WellFormed(mats[n].Rows, mats[n].Cols, GridOf(heap, mats[n].Data))
    /\ (last.op \in CtorNames \cup OpNames /\ last.kind = "ok")
         => WellFormed(last.res.Rows, last.res.Cols, last.gr)

(* C3: Multiply of a by b with a.Cols = b.Rows returns no error and the   *)
(* a.Rows x b.Cols matrix whose entry [i][j] is the sum, taken from 0 with *)
(* k ascending, of a[i][k] * b[k][j].                                      *)
MultiplyIsRowByColumnSum ==
    ( /\ last.op = "Multiply"
      /\ WellFormed(OpA.Rows, OpA.Cols, last.ga)
      /\ WellFormed(OpB.Rows, OpB.Cols, last.gb)
      /\ OpA.Cols = OpB.Rows )
    => /\ last.kind = "ok"
       /\ last.res.Rows = OpA.Rows
       /\ last.res.Cols = OpB.Cols
       /\ WellFormed(OpA.Rows, OpB.Cols, last.gr)
       /\ \A i \in 1..OpA.Rows : \A j \in 1..OpB.Cols :
            last.gr[i][j] = DotSum(last.ga, last.gb, i, j, OpA.Cols)

\* a product of a non-square matrix with at least two terms in each sum
MultiplyWitness ==
    /\ last.op = "Multiply"
    /\ last.kind = "ok"
    /\ WellFormed(OpA.Rows, OpA.Cols, last.ga)
    /\ WellFormed(OpB.Rows, OpB.Cols, last.gb)
    /\ OpA.Cols >= 2
    /\ OpA.Rows # OpA.Cols

(* C4: a constructor asked for a non-positive dimension returns an error  *)
(* to its caller, and no usable matrix; it does not panic.                *)
ConstructorsReturnError ==
    ( /\ last.op \in CtorNames
      /\ (last.rows <= 0 \/ last.cols <= 0) )
    => /\ last.kind = "err"
       /\ last.res = ZeroValue

TimesIdentity ==
    /\ last.op = "Multiply"
    /\ WellFormed(OpA.Rows, OpA.Cols, last.ga)
    /\ OpB.Rows = OpA.Cols
    /\ OpB.Cols = OpA.Cols
    /\ last.gb = IdentityGrid(OpA.Cols)

\* the call in last returned a matrix equal to its left operand
SameAsLeftOperand ==
    /\ last.kind = "ok"
    /\ last.res.Rows = OpA.Rows
    /\ last.res.Cols = OpA.Cols
    /\ last.gr = last.ga

(* C6, as claimed: for every matrix a of shape r x c, a.Multiply of       *)
(* NewIdentityMatrix(c) returns no error and a matrix equal to a.         *)
MultiplyByIdentityIsSame == TimesIdentity => SameAsLeftOperand

(* C6, amended: for every matrix a of shape r x c whose entries are all   *)
(* finite, a.Multiply of NewIdentityMatrix(c) returns no error and a      *)
(* matrix equal to a.                                                      *)
MultiplyByIdentityIsSameWhenFinite ==
    (TimesIdentity /\ AllFinite(last.ga)) => SameAsLeftOperand

\* a non-square matrix of finite entries has been multiplied by an identity
MultiplyByIdentityWitness ==
    /\ TimesIdentity
    /\ AllFinite(last.ga)
    /\ last.kind = "ok"
    /\ OpA.Cols >= 2
    /\ OpA.Rows # OpA.Cols

(* C7: T of a matrix a of shape r x c has shape c x r and entry [i][j]    *)
(* equal to a[j][i], and T of that result equals a.                       *)
TransposeSwapsAndInvolutes ==
    ( /\ last.op = "T"
      /\ WellFormed(OpA.Rows, OpA.Cols, last.ga) )
    => /\ last.kind = "ok"
       /\ last.res.Rows = OpA.Cols
       /\ last.res.Cols = OpA.Rows
       /\ WellFormed(OpA.Cols, OpA.Rows, last.gr)
       /\ \A i \in 1..OpA.Cols : \A j \in 1..OpA.Rows :
            last.gr[i][j] = last.ga[j][i]
       /\ LET back == T(heap, last.res)
          IN /\ back.kind = "ok"
             /\ back.m.Rows = OpA.Rows
             /\ back.m.Cols = OpA.Cols
             /\ GridOf(back.H, back.m.Data) = last.ga

\* a non-square matrix has been transposed
TransposeWitness ==
    /\ last.op = "T"
    /\ last.kind = "ok"
    /\ WellFormed(OpA.Rows, OpA.Cols, last.ga)
    /\ OpA.Rows # OpA.Cols

(* C8: Add of operands whose Rows or Cols differ, and Multiply of         *)
(* operands with a.Cols # b.Rows, return an error and the zero Matrix,    *)
(* having read and changed no entry of either operand.                    *)
MismatchIsRejected ==
    ( \/ last.op = "Add" /\ (OpA.Rows # OpB.Rows \/ OpA.Cols # OpB.Cols)
      \/ last.op = "Multiply" /\ OpA.Cols # OpB.Rows )
    => /\ last.kind = "err"
       /\ last.res = ZeroValue
       /\ last.reads = 0
       /\ GridOf(heap, OpA.Data) = last.ga
       /\ GridOf(heap, OpB.Data) = last.gb
       /\ <<Len(heap.outer), Len(heap.inner)>> = last.base

\* Add has been called on operands with the same Rows and different Cols
MismatchWitness ==
    /\ last.op = "Add"
    /\ last.kind = "err"
    /\ OpA.Rows = OpB.Rows
    /\ OpA.Cols # OpB.Cols

(* C9: a Matrix shares no storage with the data given to NewMatrix, so a  *)
(* later write by the caller to the slice it passed to NewMatrix changes  *)
(* the entries of no matrix.                                               *)
CallerWriteLeavesMatricesAlone ==
    [][ last'.op = "Write"
        => \A n \in 1..Len(mats) :
             GridOf(heap', mats[n].Data) = GridOf(heap, mats[n].Data) ]_vars

(* C10: Add, Multiply, T and Map leave every matrix held before the call, *)
(* and all storage allocated before it, as they were, whether the call    *)
(* succeeds or fails, and a result is made of newly allocated storage.    *)
OperandsUntouched ==
    [][ (last.op = "None" /\ last'.op \in OpNames)
        => /\ mats' = mats
           /\ Len(heap'.outer) >= Len(heap.outer)
           /\ Len(heap'.inner) >= Len(heap.inner)
           /\ SubSeq(heap'.outer, 1, Len(heap.outer)) = heap.outer
           /\ SubSeq(heap'.inner, 1, Len(heap.inner)) = heap.inner
           /\ last'.kind = "ok"
                => /\ last'.res.Data > Len(heap.outer)
                   /\ \A i \in 1..Len(OuterOf(heap', last'.res.Data)) :
                        OuterOf(heap', last'.res.Data)[i] > Len(heap.inner) ]_vars

\* Map has returned a matrix computed from a non-square operand
OperandsUntouchedWitness ==
    /\ last.op = "Map"
    /\ last.kind = "ok"
    /\ OpA.Rows # OpA.Cols
    /\ last.reads > 0

====
